---- MODULE Spec2Model ----
(***************************************************************************)
(* deduplicate_media.py as a state machine.                                *)
(*                                                                         *)
(* The state is the directory tree (which files exist, the content and     *)
(* modification time of the media files, the metadata.json of each folder, *)
(* the order in which rglob yields the entries), the parsed command line,  *)
(* the locals of main() and its position.  One action per step of main().  *)
(*                                                                         *)
(* Strings are sequences of one-character strings, so that len(), lower()  *)
(* and the comparison of strings are computed as Python computes them.     *)
(* File content is a sequence of blocks of 64 KiB.  sha256 is an ideal     *)
(* hash: the digest of a byte string is that byte string.                  *)
(***************************************************************************)
EXTENDS Integers, Sequences, FiniteSets, TLC

(* ------------------------------ bounds -------------------------------- *)

\* I/O errors (OSError) the environment may raise during one behaviour.
MaxFaults == 1
\* Invocations of the tool on the same tree.
MaxRuns == 2
\* Modification times are 1..MaxMtime.
MaxMtime == 2

(* ------------------------------ strings ------------------------------- *)

\* ord(c) for the characters that occur in the modelled paths.
Ord(c) ==
  CASE c = "-" -> 45 [] c = "." -> 46 [] c = "/" -> 47
    [] c = "A" -> 65 [] c = "P" -> 80
    [] c = "a" -> 97 [] c = "b" -> 98 [] c = "d" -> 100 [] c = "e" -> 101
    [] c = "g" -> 103 [] c = "j" -> 106 [] c = "l" -> 108 [] c = "m" -> 109
    [] c = "n" -> 110 [] c = "o" -> 111 [] c = "p" -> 112 [] c = "s" -> 115
    [] c = "t" -> 116 [] c = "u" -> 117 [] c = "x" -> 120

\* str.lower() on one character.
LowerChar(c) ==
  CASE c = "A" -> "a" [] c = "P" -> "p" [] OTHER -> c

\* str.lower()
Lower(s) == [i \in DOMAIN s |-> LowerChar(s[i])]

\* s < t for Python strings: the first differing character decides, a proper
\* prefix is smaller.
StrLess(s, t) ==
  \E i \in 1..(Len(t)) :
    /\ \A j \in 1..(i - 1) : j <= Len(s) /\ s[j] = t[j]
    /\ \/ i = Len(s) + 1
       \/ i <= Len(s) /\ Ord(s[i]) < Ord(t[i])

EndsWith(s, suf) ==
  /\ Len(s) >= Len(suf)
  /\ SubSeq(s, Len(s) - Len(suf) + 1, Len(s)) = suf

\* Index of the last "." of s, 0 when there is none.
LastDot(s) ==
  IF \E i \in DOMAIN s : s[i] = "."
  THEN CHOOSE i \in DOMAIN s : s[i] = "." /\ \A j \in (i + 1)..Len(s) : s[j] # "."
  ELSE 0

\* PurePath.suffix: the part of the name from its last dot on; empty when the
\* name has no dot, or only a leading one.
Suffix(name) ==
  IF LastDot(name) > 1 /\ LastDot(name) < Len(name)
  THEN SubSeq(name, LastDot(name), Len(name))
  ELSE << >>

(* ------------------------------- paths -------------------------------- *)

\* A path below the root: the folder and the file name.
Path(dir, name) == [dir |-> dir, name |-> name]

\* str(p); the root prefix is the same for every path and is left out.
Str(p) == p.dir \o <<"/">> \o p.name

ExtJpg == <<".", "j", "p", "g">>
ExtJson == <<".", "j", "s", "o", "n">>

MEDIA_EXTS == {ExtJpg, <<".", "p", "n", "g">>, <<".", "m", "p", "4">>}

SUPPLEMENTAL_SUFFIX ==
  <<".", "s", "u", "p", "p", "l", "e", "m", "e", "n", "t", "a", "l", "-",
    "m", "e", "t", "a", "d", "a", "t", "a">> \o ExtJson

FolderA == <<"a">>
FolderB == <<"b">>
Folders == {FolderA, FolderB}

\* The media files a tree may hold: two names in folder a that differ only in
\* letter case, the same name in folder b, and a longer name in folder b.
PathAp == Path(FolderA, <<"p">> \o ExtJpg)
PathAP == Path(FolderA, <<"P">> \o ExtJpg)
PathBp == Path(FolderB, <<"p">> \o ExtJpg)
PathBpp == Path(FolderB, <<"p", "p">> \o ExtJpg)
MediaPaths == {PathAp, PathAP, PathBp, PathBpp}

\* The sidecars a tree may hold.
SideApJson == Path(FolderA, PathAp.name \o ExtJson)
SideAPSupp == Path(FolderA, PathAP.name \o SUPPLEMENTAL_SUFFIX)
SideBpJson == Path(FolderB, PathBp.name \o ExtJson)
SidecarPaths == {SideApJson, SideAPSupp, SideBpJson}

AllPaths == MediaPaths \cup SidecarPaths

(* ------------------------------ content ------------------------------- *)

\* File content in blocks of 64 KiB.  ContentX and ContentY have the same
\* size, first block and last block and differ in between; ContentW has the
\* same size and another first block; ContentZ is one block long.
ContentX == <<"h", "m", "t">>
ContentY == <<"h", "n", "t">>
ContentW == <<"g", "m", "t">>
ContentZ == <<"h">>
Contents == {ContentX, ContentY, ContentW, ContentZ}

\* What is kept for a path that is no media file of the tree.
NoContent == << >>

\* The states of a folder's metadata.json.
MetaStates == {"missing", "invalid", "notdict", "notitle", "blank", "title"}

(* ------------------------------- state -------------------------------- *)

VARIABLES
  exists,      \* the files of the tree: a subset of AllPaths
  data,        \* the content of each media file (NoContent when absent)
  mtime,       \* st_mtime of each media file (0 when absent)
  meta,        \* the state of metadata.json in each folder
  order,       \* the order in which root.rglob("*") yields the media files
  args,        \* the parsed command line
  pc,          \* the position of main()
  run,         \* number of the current invocation
  files,       \* main: files (list of FileInfo)
  by_size,     \* main: by_size (dict, in insertion order)
  size_groups, \* main: size_groups
  by_qh,       \* main: by_qh (dict, in insertion order)
  by_hash,     \* main: by_hash (dict, in insertion order)
  dup_sets,    \* main: dup_sets
  gi,          \* index of the group the current loop is at
  pi,          \* index of the member the deletion loop is at
  keeper,      \* main: keeper of the set the deletion loop is at
  report,      \* the lines written to the report file after the header
  stdout,      \* the lines printed
  deleted,     \* main: deleted
  sidecars,    \* main: sidecars
  removed,     \* the paths unlinked by this invocation, in order
  hashCalls,   \* the calls of quick_hash and sha256_file of this invocation
  ioFailed,    \* the paths an I/O error was raised for in this invocation
  faults,      \* I/O errors raised so far
  error,       \* the call whose OSError ended main(), "none" otherwise
  prev         \* what the previous invocation was given and did

tree == <<exists, data, mtime, meta, order>>
locals == <<files, by_size, size_groups, by_qh, by_hash, dup_sets, gi, pi, keeper>>
output == <<report, stdout, deleted, sidecars, removed>>
history == <<hashCalls, ioFailed, faults, error, prev>>
vars == <<tree, args, pc, run, locals, output, history>>

(* ------------------------- dicts and sequences ------------------------- *)

Range(s) == {s[i] : i \in DOMAIN s}

\* A dict is the sequence of its items [k, v] in insertion order.
Keys(d) == {d[i].k : i \in DOMAIN d}

\* A faulty setdefault-append, d[k] = [x]: the list of an existing key is
\* replaced.
SetDefaultAppend_Overwrites(d, k, x) ==
  IF k \in Keys(d)
  THEN [i \in DOMAIN d |-> IF d[i].k = k THEN [k |-> k, v |-> <<x>>] ELSE d[i]]
  ELSE Append(d, [k |-> k, v |-> <<x>>])

\* d.setdefault(k, []).append(x)
SetDefaultAppend(d, k, x) ==
  IF k \in Keys(d)
  THEN [i \in DOMAIN d |-> IF d[i].k = k THEN [k |-> k, v |-> Append(d[i].v, x)] ELSE d[i]]
  ELSE Append(d, [k |-> k, v |-> <<x>>])

\* list(d.values())
Values(d) == [i \in DOMAIN d |-> d[i].v]

\* A faulty filter that keeps the groups of one.
Plural_KeepsAll(groups) == groups

\* [ps for ps in groups if len(ps) > 1]
MoreThanOne(ps) == Len(ps) > 1
Plural(groups) == SelectSeq(groups, MoreThanOne)

Min2(a, b) == IF a < b THEN a ELSE b
Max2(a, b) == IF a > b THEN a ELSE b

(* --------------------------- the functions ----------------------------- *)

\* is_media_file
is_media_file(p) == p \in exists /\ Lower(Suffix(p.name)) \in MEDIA_EXTS

\* st_size, in blocks of 64 KiB
StSize(p) == Len(data[p])

\* iter_media_files: the media files in traversal order, without those whose
\* stat() raised OSError (bad).
iter_media_files(bad) ==
  LET yielded(p) == is_media_file(p) /\ p \notin bad
  IN [i \in DOMAIN SelectSeq(order, yielded) |->
        [path |-> SelectSeq(order, yielded)[i],
         size |-> StSize(SelectSeq(order, yielded)[i])]]

\* hashlib.sha256(...).hexdigest() as an ideal hash: equal digests, equal input.
Sha256(bytes) == [sha256 |-> bytes]

\* str(n).encode() for one decimal digit
DecStr(n) == <<<<"0", "1", "2", "3", "4", "5", "6", "7", "8", "9">>[n + 1]>>

\* f.read(n) at offset pos of content c
ReadAt(c, pos, n) == SubSeq(c, pos + 1, Min2(Len(c), pos + n))

\* 64 * 1024 bytes, in blocks of 64 KiB
QuickLen == 1

\* A faulty sha256_file that hashes the first 64 KiB only.
sha256_file_HeadOnly(p) == Sha256(ReadAt(data[p], 0, QuickLen))

\* sha256_file
sha256_file(p) == Sha256(data[p])

\* quick_hash
quick_hash(p, size) ==
  Sha256(DecStr(size)
         \o ReadAt(data[p], 0, QuickLen)
         \o (IF size > QuickLen
             THEN ReadAt(data[p], Max2(0, size - QuickLen), QuickLen)
             ELSE << >>))

\* A faulty is_album_folder without .strip(): a blank title makes an album.
is_album_folder_BlankTitle(folder) == meta[folder] \in {"blank", "title"}

\* is_album_folder
is_album_folder(folder) ==
  CASE meta[folder] = "missing" -> FALSE    \* not meta.is_file()
    [] meta[folder] = "invalid" -> FALSE    \* json.loads raised
    [] meta[folder] = "notdict" -> FALSE    \* not isinstance(obj, dict)
    [] meta[folder] = "notitle" -> FALSE    \* obj.get("title") is no str
    [] meta[folder] = "blank" -> FALSE      \* obj["title"].strip() is ""
    [] meta[folder] = "title" -> TRUE

\* The order in which folder.glob("*.json") yields the sidecars of a folder.
GlobOrder == <<SideApJson, SideAPSupp, SideBpJson>>

\* related_sidecars, on the tree whose files are ex
related_sidecars(media, ex) ==
  LET lower == Lower(media.name)
      named == <<Path(media.dir, media.name \o ExtJson),
                 Path(media.dir, media.name \o SUPPLEMENTAL_SUFFIX)>>
      globbed(jp) ==
        /\ jp \in ex
        /\ jp.dir = media.dir
        /\ EndsWith(jp.name, ExtJson)
        /\ \/ Lower(jp.name) = lower \o ExtJson
           \/ Lower(jp.name) = lower \o SUPPLEMENTAL_SUFFIX
      candidates == named \o SelectSeq(GlobOrder, globbed)
      \* p.exists() and rp not in seen, rp being p itself: no symlinks
      fresh(i) == candidates[i] \in ex
                  /\ \A j \in 1..(i - 1) : candidates[j] # candidates[i]
      RECURSIVE Out(_)
      Out(i) == IF i > Len(candidates) THEN << >>
                ELSE (IF fresh(i) THEN <<candidates[i]>> ELSE << >>) \o Out(i + 1)
  IN Out(1)

\* The key of the shortest-path choice: (len(str(p)), str(p).lower())
ShortKeyLess(p, q) ==
  \/ Len(Str(p)) < Len(Str(q))
  \/ Len(Str(p)) = Len(Str(q)) /\ StrLess(Lower(Str(p)), Lower(Str(q)))

\* min(paths, key=...), less being the pairs <<p, q>> where the key of p is
\* less than the key of q: the first element no other element is less than
FirstMin(paths, less) ==
  paths[CHOOSE i \in DOMAIN paths :
          /\ \A j \in DOMAIN paths : <<paths[j], paths[i]>> \notin less
          /\ \A j \in 1..(i - 1) : <<paths[i], paths[j]>> \in less]

\* pick_keeper
pick_keeper(paths, album_policy, default_policy) ==
  LET inAlbum(p) == is_album_folder(p.dir)
      notInAlbum(p) == ~is_album_folder(p.dir)
      album == SelectSeq(paths, inAlbum)
      non_album == SelectSeq(paths, notInAlbum)
      cands == IF album # << >> /\ non_album # << >>
               THEN (CASE album_policy = "keep-album" -> album
                       [] album_policy = "keep-non-album" -> non_album
                       [] OTHER -> paths)
               ELSE paths
      pairs == Range(cands) \X Range(cands)
  IN CASE default_policy = "oldest" ->
            FirstMin(cands, {pq \in pairs : mtime[pq[1]] < mtime[pq[2]]})
       [] default_policy = "newest" ->
            \* max(paths, key=...): the first element no other element is more than
            FirstMin(cands, {pq \in pairs : mtime[pq[1]] > mtime[pq[2]]})
       [] OTHER ->
            FirstMin(cands, {pq \in pairs : ShortKeyLess(pq[1], pq[2])})

(* ------------------------------ the trees ------------------------------ *)

\* The orders in which the elements of S can be listed.
Perms(S) ==
  {s \in [1..Cardinality(S) -> S] : \A i, j \in DOMAIN s : s[i] = s[j] => i = j}

Present(d) == {p \in MediaPaths : d[p] # NoContent}

NoPath == Path(<< >>, << >>)

NoPrev == [ran |-> FALSE, args |-> << >>, stdout |-> << >>, removed |-> << >>,
           ioFailed |-> {}]

\* The files of the tree are given by the content of the media files (d), the
\* sidecars (sc), the modification times (mt), the metadata.json of folder b
\* (mb) and the traversal order (ord); a is the command line.
Start(d, sc, mt, mb, ord, a) ==
  /\ exists = Present(d) \cup sc
  /\ data = d
  /\ mtime = mt
  /\ meta = [f \in Folders |-> IF f = FolderB THEN mb ELSE "missing"]
  /\ order = ord
  /\ args = a
  /\ pc = "scan"
  /\ run = 1
  /\ files = << >>
  /\ by_size = << >>
  /\ size_groups = << >>
  /\ by_qh = << >>
  /\ by_hash = << >>
  /\ dup_sets = << >>
  /\ gi = 1
  /\ pi = 1
  /\ keeper = NoPath
  /\ report = << >>
  /\ stdout = << >>
  /\ deleted = 0
  /\ sidecars = 0
  /\ removed = << >>
  /\ hashCalls = {}
  /\ ioFailed = {}
  /\ faults = 0
  /\ error = "none"
  /\ prev = NoPrev

AlbumPolicies == {"keep-non-album", "keep-album", "keep-default"}
KeepPolicies == {"shortest", "oldest", "newest"}

Args(del, dry, ap, kp) ==
  [delete_duplicates |-> del, dry_run |-> dry, album_policy |-> ap, keep |-> kp]

\* The default of every option but the two flags.
DefaultArgs(del, dry) == Args(del, dry, "keep-non-album", "shortest")

Mtimes(d) ==
  {mt \in [MediaPaths -> 0..MaxMtime] : \A p \in MediaPaths : mt[p] = 0 <=> d[p] = NoContent}

SameMtime(d) == [p \in MediaPaths |-> IF d[p] = NoContent THEN 0 ELSE 1]

\* Trees of files of any content, to be grouped: no two names differ in letter
\* case only, there are no sidecars, folder b is an album.
InitGrouping ==
  \E d \in [MediaPaths -> Contents \cup {NoContent}] :
    /\ d[PathAP] = NoContent
    /\ \E ord \in Perms(Present(d)) : \E del, dry \in BOOLEAN :
         Start(d, {}, SameMtime(d), "title", ord, DefaultArgs(del, dry))

\* The media files of the trees of one content.
CasePaths == {PathAp, PathAP, PathBp}

OneContent ==
  {d \in [MediaPaths -> {ContentX, NoContent}] :
     Present(d) \subseteq CasePaths /\ Cardinality(Present(d)) >= 2}

\* Trees of files of one content, of any modification time, folder b being
\* an album, for a live deletion under every policy.
InitKeeper ==
  \E d \in OneContent : \E mt \in Mtimes(d) :
  \E ord \in Perms(Present(d)) : \E ap \in AlbumPolicies : \E kp \in KeepPolicies :
    Start(d, {}, mt, "title", ord, Args(TRUE, FALSE, ap, kp))

\* Trees of files of one content with any sidecars, folder b being an album,
\* for a deletion or its dry run that prefers either kind of folder.
InitSidecars ==
  \E d \in OneContent : \E sc \in SUBSET SidecarPaths :
  \E ord \in Perms(Present(d)) : \E dry \in BOOLEAN :
  \E ap \in {"keep-non-album", "keep-album"} :
    Start(d, sc, SameMtime(d), "title", ord, Args(TRUE, dry, ap, "shortest"))

\* The tree of a/p.jpg and b/p.jpg of one content, with every state of the
\* metadata.json of folder b.
InitAlbum ==
  \E mb \in MetaStates : \E ap \in AlbumPolicies : \E ord \in Perms({PathAp, PathBp}) :
    Start([p \in MediaPaths |-> IF p \in {PathAp, PathBp} THEN ContentX ELSE NoContent],
          {SideBpJson}, [p \in MediaPaths |-> IF p \in {PathAp, PathBp} THEN 1 ELSE 0],
          mb, ord, Args(TRUE, FALSE, ap, "shortest"))

Init == InitGrouping \/ InitKeeper \/ InitSidecars \/ InitAlbum

(* ------------------------------- main() -------------------------------- *)

\* An OSError may be raised for the paths of bad.
MayFail(bad) == faults + Cardinality(bad) <= MaxFaults

\* files = list(iter_media_files(root)); a file whose stat() raises is skipped.
Scan ==
  /\ pc = "scan"
  /\ \E bad \in SUBSET {p \in MediaPaths : is_media_file(p)} :
       /\ MayFail(bad)
       /\ files' = iter_media_files(bad)
       /\ faults' = faults + Cardinality(bad)
       /\ ioFailed' = ioFailed \cup bad
  /\ pc' = "group"
  /\ UNCHANGED <<tree, args, run, by_size, size_groups, by_qh, by_hash, dup_sets,
                 gi, pi, keeper, output, hashCalls, error, prev>>

\* for fi in files: by_size.setdefault(fi.size, []).append(fi.path)
RECURSIVE BySize(_, _)
BySize(fis, d) ==
  IF fis = << >> THEN d
  ELSE BySize(Tail(fis), SetDefaultAppend(d, Head(fis).size, Head(fis).path))

\* by_size, size_groups and the start of the quick-hash loop
GroupBySize ==
  /\ pc = "group"
  /\ by_size' = BySize(files, << >>)
  /\ size_groups' = Plural(Values(by_size'))
  /\ by_qh' = << >>
  /\ gi' = 1
  /\ pc' = "quick"
  /\ UNCHANGED <<tree, args, run, files, by_hash, dup_sets, pi, keeper, output, history>>

\* for p in ps: by_qh.setdefault((size, quick_hash(p, size)), []).append(p),
\* but for the paths of bad, whose quick_hash raises OSError
RECURSIVE ByQuickHash(_, _, _, _)
ByQuickHash(ps, size, bad, d) ==
  IF ps = << >> THEN d
  ELSE ByQuickHash(Tail(ps), size, bad,
         IF Head(ps) \in bad THEN d
         ELSE SetDefaultAppend(d, <<size, quick_hash(Head(ps), size)>>, Head(ps)))

\* One size group of the quick-hash loop.
QuickHashGroup ==
  /\ pc = "quick"
  /\ gi <= Len(size_groups)
  /\ LET ps == size_groups[gi]
         size == StSize(ps[1])
     IN \E bad \in SUBSET Range(ps) :
          /\ MayFail(bad)
          /\ by_qh' = ByQuickHash(ps, size, bad, by_qh)
          /\ hashCalls' = hashCalls \cup {<<"quick_hash", p>> : p \in Range(ps)}
          /\ faults' = faults + Cardinality(bad)
          /\ ioFailed' = ioFailed \cup bad
  /\ gi' = gi + 1
  /\ UNCHANGED <<tree, args, pc, run, files, by_size, size_groups, by_hash, dup_sets,
                 pi, keeper, output, error, prev>>

\* size = ps[0].stat().st_size raises OSError, which nothing catches.
SizeStatFail ==
  /\ pc = "quick"
  /\ gi <= Len(size_groups)
  /\ MayFail({size_groups[gi][1]})
  /\ faults' = faults + 1
  /\ ioFailed' = ioFailed \cup {size_groups[gi][1]}
  /\ error' = "stat"
  /\ pc' = "crashed"
  /\ UNCHANGED <<tree, args, run, locals, output, hashCalls, prev>>

\* The quick-hash loop is over: prog.done(), by_hash = {}
EndQuick ==
  /\ pc = "quick"
  /\ gi > Len(size_groups)
  /\ by_hash' = << >>
  /\ gi' = 1
  /\ pc' = "full"
  /\ UNCHANGED <<tree, args, run, files, by_size, size_groups, by_qh, dup_sets,
                 pi, keeper, output, history>>

\* for p in ps: by_hash.setdefault(sha256_file(p), []).append(p)
RECURSIVE ByHash(_, _)
ByHash(ps, d) ==
  IF ps = << >> THEN d
  ELSE ByHash(Tail(ps), SetDefaultAppend(d, sha256_file(Head(ps)), Head(ps)))

\* One group of by_qh.values() in the full-hash loop.
Sha256Group ==
  /\ pc = "full"
  /\ gi <= Len(by_qh)
  /\ LET ps == Values(by_qh)[gi]
     IN IF Len(ps) < 2
        THEN UNCHANGED <<by_hash, hashCalls>>
        ELSE /\ by_hash' = ByHash(ps, by_hash)
             /\ hashCalls' = hashCalls \cup {<<"sha256_file", p>> : p \in Range(ps)}
  /\ gi' = gi + 1
  /\ UNCHANGED <<tree, args, pc, run, files, by_size, size_groups, by_qh, dup_sets,
                 pi, keeper, output, ioFailed, faults, error, prev>>

\* sha256_file raises OSError on the k-th member of the group, which nothing
\* catches.
Sha256Fail ==
  /\ pc = "full"
  /\ gi <= Len(by_qh)
  /\ LET ps == Values(by_qh)[gi]
     IN /\ Len(ps) >= 2
        /\ \E k \in DOMAIN ps :
             /\ MayFail({ps[k]})
             /\ by_hash' = ByHash(SubSeq(ps, 1, k - 1), by_hash)
             /\ hashCalls' = hashCalls \cup {<<"sha256_file", ps[j]>> : j \in 1..k}
             /\ ioFailed' = ioFailed \cup {ps[k]}
  /\ faults' = faults + 1
  /\ error' = "sha256_file"
  /\ pc' = "crashed"
  /\ UNCHANGED <<tree, args, run, files, by_size, size_groups, by_qh, dup_sets,
                 gi, pi, keeper, output, prev>>

\* dup_sets = [ps for ps in by_hash.values() if len(ps) > 1]
EndFull ==
  /\ pc = "full"
  /\ gi > Len(by_qh)
  /\ dup_sets' = Plural(Values(by_hash))
  /\ pc' = "report"
  /\ UNCHANGED <<tree, args, run, files, by_size, size_groups, by_qh, by_hash,
                 gi, pi, keeper, output, history>>

\* The lines of the report for one item of by_hash.
ReportLines(item) ==
  IF Len(item.v) < 2 THEN << >>
  ELSE LET k == pick_keeper(item.v, args.album_policy, args.keep)
           dup(p) == p # k
           dups == SelectSeq(item.v, dup)
       IN [i \in DOMAIN dups |-> [sha256 |-> item.k, keeper |-> k, duplicate |-> dups[i]]]

RECURSIVE ReportOf(_)
ReportOf(d) == IF d = << >> THEN << >> ELSE ReportLines(Head(d)) \o ReportOf(Tail(d))

\* The report file is written.
Report ==
  /\ pc = "report"
  /\ report' = ReportOf(by_hash)
  /\ pc' = "reported"
  /\ UNCHANGED <<tree, args, run, locals, stdout, deleted, sidecars, removed, history>>

\* if not args.delete_duplicates: print(...); return
ReportOnly ==
  /\ pc = "reported"
  /\ ~args.delete_duplicates
  /\ stdout' = Append(stdout, [line |-> "report only", sets |-> Len(dup_sets)])
  /\ pc' = "done"
  /\ UNCHANGED <<tree, args, run, locals, report, deleted, sidecars, removed, history>>

\* A faulty deletion loop without "if p == keeper: continue".
NextDup_IncludesKeeper(ps, k, from) == IF from <= Len(ps) THEN from ELSE Len(ps) + 1

\* The index of the first member of ps from index from on that is not k,
\* Len(ps) + 1 when there is none.
NextDup(ps, k, from) ==
  IF \E i \in from..Len(ps) : ps[i] # k
  THEN CHOOSE i \in from..Len(ps) : ps[i] # k /\ \A j \in from..(i - 1) : ps[j] = k
  ELSE Len(ps) + 1

KeeperOf(g) ==
  IF g <= Len(dup_sets) THEN pick_keeper(dup_sets[g], args.album_policy, args.keep)
  ELSE NoPath

\* A faulty deletion loop that leaves a set after its first duplicate.
Advance_OnePerSet ==
  /\ gi' = gi + 1
  /\ keeper' = KeeperOf(gi + 1)
  /\ pi' = IF gi + 1 <= Len(dup_sets)
           THEN NextDup(dup_sets[gi + 1], KeeperOf(gi + 1), 1) ELSE 1

\* The deletion loop goes on to the next duplicate: the next member of the
\* set that is not its keeper, or the first one of the next set.
Advance ==
  LET ps == dup_sets[gi]
  IN IF NextDup(ps, keeper, pi + 1) <= Len(ps)
     THEN /\ pi' = NextDup(ps, keeper, pi + 1)
          /\ UNCHANGED <<gi, keeper>>
     ELSE /\ gi' = gi + 1
          /\ keeper' = KeeperOf(gi + 1)
          /\ pi' = IF gi + 1 <= Len(dup_sets)
                   THEN NextDup(dup_sets[gi + 1], KeeperOf(gi + 1), 1) ELSE 1

\* deleted = 0, sidecars = 0 and the start of the deletion loop
BeginDelete ==
  /\ pc = "reported"
  /\ args.delete_duplicates
  /\ deleted' = 0
  /\ sidecars' = 0
  /\ gi' = 1
  /\ keeper' = KeeperOf(1)
  /\ pi' = IF dup_sets # << >> THEN NextDup(dup_sets[1], KeeperOf(1), 1) ELSE 1
  /\ pc' = "delete"
  /\ UNCHANGED <<tree, args, run, files, by_size, size_groups, by_qh, by_hash,
                 dup_sets, report, stdout, removed, history>>

\* The lines a dry run prints for the duplicate p.
DryRunLines(p, scs) ==
  <<[line |-> "delete", path |-> p]>>
    \o [i \in DOMAIN scs |-> [line |-> "delete sidecar", path |-> scs[i]]]

\* One duplicate of a dry run.
DryRunStep ==
  /\ pc = "delete"
  /\ gi <= Len(dup_sets)
  /\ args.dry_run
  /\ stdout' = stdout \o DryRunLines(dup_sets[gi][pi], related_sidecars(dup_sets[gi][pi], exists))
  /\ Advance
  /\ UNCHANGED <<tree, args, pc, run, files, by_size, size_groups, by_qh, by_hash,
                 dup_sets, report, deleted, sidecars, removed, history>>

\* for sc in scs: if sc.exists(): sc.unlink(missing_ok=True)
\* The sidecars of scs that are unlinked, on the tree whose files are ex.
RECURSIVE Unlinked(_, _)
Unlinked(scs, ex) ==
  IF scs = << >> THEN << >>
  ELSE IF Head(scs) \in ex
       THEN <<Head(scs)>> \o Unlinked(Tail(scs), ex \ {Head(scs)})
       ELSE Unlinked(Tail(scs), ex)

\* A faulty deletion that does not look at args.dry_run.
DeleteStep_IgnoresDryRun ==
  /\ pc = "delete"
  /\ gi <= Len(dup_sets)
  /\ LET p == dup_sets[gi][pi]
         scs == related_sidecars(p, exists)
         gone == Unlinked(scs, exists \ {p})
     IN /\ exists' = (exists \ {p}) \ Range(gone)
        /\ deleted' = deleted + 1
        /\ sidecars' = sidecars + Len(gone)
        /\ removed' = removed \o <<p>> \o gone
  /\ Advance
  /\ UNCHANGED <<data, mtime, meta, order, args, pc, run, files, by_size, size_groups,
                 by_qh, by_hash, dup_sets, report, stdout, history>>

\* One duplicate of a live run: the file and its sidecars are unlinked.
DeleteStep ==
  /\ pc = "delete"
  /\ gi <= Len(dup_sets)
  /\ ~args.dry_run
  /\ LET p == dup_sets[gi][pi]
         scs == related_sidecars(p, exists)
         gone == Unlinked(scs, exists \ {p})
     IN /\ exists' = (exists \ {p}) \ Range(gone)
        /\ deleted' = deleted + 1
        /\ sidecars' = sidecars + Len(gone)
        /\ removed' = removed \o <<p>> \o gone
  /\ Advance
  /\ UNCHANGED <<data, mtime, meta, order, args, pc, run, files, by_size, size_groups,
                 by_qh, by_hash, dup_sets, report, stdout, history>>

\* One duplicate of a live run where unlink raises OSError, which nothing
\* catches: at the file itself (k = 0) or at its k-th sidecar.
DeleteFail ==
  /\ pc = "delete"
  /\ gi <= Len(dup_sets)
  /\ ~args.dry_run
  /\ LET p == dup_sets[gi][pi]
         scs == related_sidecars(p, exists)
         gone == Unlinked(scs, exists \ {p})
     IN \E k \in 0..Len(gone) :
          /\ MayFail({IF k = 0 THEN p ELSE gone[k]})
          /\ ioFailed' = ioFailed \cup {IF k = 0 THEN p ELSE gone[k]}
          /\ IF k = 0
             THEN UNCHANGED <<exists, deleted, sidecars, removed>>
             ELSE /\ exists' = (exists \ {p}) \ {gone[j] : j \in 1..(k - 1)}
                  /\ deleted' = deleted + 1
                  /\ sidecars' = sidecars + (k - 1)
                  /\ removed' = removed \o <<p>> \o SubSeq(gone, 1, k - 1)
  /\ faults' = faults + 1
  /\ error' = "unlink"
  /\ pc' = "crashed"
  /\ UNCHANGED <<data, mtime, meta, order, args, run, locals, report, stdout,
                 hashCalls, prev>>

\* print(f"Done. ...")
Finish ==
  /\ pc = "delete"
  /\ gi > Len(dup_sets)
  /\ stdout' = Append(stdout, [line |-> "done", sets |-> Len(dup_sets),
                               deleted_files |-> deleted, deleted_sidecars |-> sidecars])
  /\ pc' = "done"
  /\ UNCHANGED <<tree, args, run, locals, report, deleted, sidecars, removed, history>>

\* After a deletion or its dry run the tool is run again on the tree as it is
\* now, with the same options but --dry-run.
Rerun ==
  /\ pc = "done"
  /\ args.delete_duplicates
  /\ run < MaxRuns
  /\ run' = run + 1
  /\ prev' = [ran |-> TRUE, args |-> args, stdout |-> stdout, removed |-> removed,
              ioFailed |-> ioFailed]
  /\ args' = [args EXCEPT !.dry_run = FALSE]
  /\ pc' = "scan"
  /\ files' = << >>
  /\ by_size' = << >>
  /\ size_groups' = << >>
  /\ by_qh' = << >>
  /\ by_hash' = << >>
  /\ dup_sets' = << >>
  /\ gi' = 1
  /\ pi' = 1
  /\ keeper' = NoPath
  /\ report' = << >>
  /\ stdout' = << >>
  /\ deleted' = 0
  /\ sidecars' = 0
  /\ removed' = << >>
  /\ hashCalls' = {}
  /\ ioFailed' = {}
  /\ UNCHANGED <<tree, faults, error>>

Next ==
  \/ Scan
  \/ GroupBySize
  \/ QuickHashGroup
  \/ SizeStatFail
  \/ EndQuick
  \/ Sha256Group
  \/ Sha256Fail
  \/ EndFull
  \/ Report
  \/ ReportOnly
  \/ BeginDelete
  \/ DryRunStep
  \/ DeleteStep
  \/ DeleteFail
  \/ Finish
  \/ Rerun

Spec == Init /\ [][Next]_vars

(* ------------------------------ properties ----------------------------- *)

\* The media files main() scanned.
Scanned == {files[i].path : i \in DOMAIN files}

\* dup_sets has been computed.
Grouped == pc \in {"report", "reported", "delete", "done"}

\* A and B are members of one duplicate set.
SameSet(A, B) == \E i \in DOMAIN dup_sets : {A, B} \subseteq Range(dup_sets[i])

\* This invocation deletes.
Live == args.delete_duplicates /\ ~args.dry_run

\* C1 as claimed: once the three stages are over, any two scanned files of
\* equal content are in the same duplicate set.
C1_EqualContentSameSet ==
  Grouped =>
    \A A, B \in Scanned : A # B /\ data[A] = data[B] => SameSet(A, B)

\* C1 as amended: once the three stages are over, any two scanned files of
\* equal content for neither of which quick_hash raised an I/O error are in
\* the same duplicate set, whatever the traversal order.
C1_EqualContentSameSetUnlessFailed ==
  Grouped =>
    \A A, B \in Scanned \ ioFailed : A # B /\ data[A] = data[B] => SameSet(A, B)

\* Two files of equal content were grouped with a file of another size
\* scanned between them.
C1_Witness ==
  /\ Grouped
  /\ \E i, j, k \in DOMAIN files :
       /\ i < j /\ j < k
       /\ data[files[i].path] = data[files[k].path]
       /\ files[j].size # files[i].size
       /\ SameSet(files[i].path, files[k].path)

\* C2: the members of a duplicate set, and the keeper and the duplicate of a
\* line of the report, have the same content.
C2_SetsHaveOneContent ==
  /\ \A i \in DOMAIN dup_sets : \A A, B \in Range(dup_sets[i]) : data[A] = data[B]
  /\ \A i \in DOMAIN report : data[report[i].keeper] = data[report[i].duplicate]

\* Two files of different content were in one group of by_qh, and a duplicate
\* set was found.
C2_Witness ==
  /\ Grouped
  /\ dup_sets # << >>
  /\ \E i \in DOMAIN by_qh : \E A, B \in Range(by_qh[i].v) : data[A] # data[B]

\* The members of a duplicate set other than k.
Others(i, k) == Range(dup_sets[i]) \ {k}

\* C3: the keeper of every duplicate set is one member of the set, it is never
\* unlinked and it exists; the deletion loop is at a member that is not the
\* keeper; after a live run every other member of the set has been unlinked.
C3_KeeperIsKept ==
  \A i \in DOMAIN dup_sets :
    LET k == KeeperOf(i)
    IN /\ Len(dup_sets[i]) >= 2
       /\ k \in Range(dup_sets[i])
       /\ k \in exists
       /\ \A j \in DOMAIN removed : removed[j] # k
       /\ pc = "delete" /\ gi = i => keeper = k /\ dup_sets[i][pi] # k
       /\ pc = "done" /\ Live =>
            \A p \in Others(i, k) : p \notin exists /\ p \in Range(removed)

\* A live run is over that unlinked the two duplicates of a set of three.
C3_Witness ==
  /\ pc = "done"
  /\ Live
  /\ \E i \in DOMAIN dup_sets :
       /\ Len(dup_sets[i]) = 3
       /\ KeeperOf(i) \in exists
       /\ Cardinality(Others(i, KeeperOf(i)) \cap Range(removed)) = 2

\* A folder is an album: its metadata.json is a mapping whose title is a
\* string that is not blank.
Album(folder) == meta[folder] = "title"

\* A duplicate set has members in album folders and in other folders.
Mixed(i) ==
  /\ \E p \in Range(dup_sets[i]) : Album(p.dir)
  /\ \E p \in Range(dup_sets[i]) : ~Album(p.dir)

\* No member of the set is better than k under the tie-break strategy.
BestOf(i, k) ==
  \A q \in Range(dup_sets[i]) :
    CASE args.keep = "oldest" -> mtime[k] <= mtime[q]
      [] args.keep = "newest" -> mtime[k] >= mtime[q]
      [] OTHER -> ~ShortKeyLess(q, k)

\* C4: the keeper of a set with members in album folders and in other folders
\* is in an album folder under keep-album and in another folder under
\* keep-non-album; under keep-default, or when the set is not mixed, no
\* member of the whole set is better than the keeper; with keep-non-album the
\* keeper of a/p.jpg (no album) and b/p.jpg (album) is a/p.jpg.
C4_AlbumPreference ==
  Grouped =>
    \A i \in DOMAIN dup_sets :
      LET k == KeeperOf(i)
      IN /\ Mixed(i) /\ args.album_policy = "keep-album" => Album(k.dir)
         /\ Mixed(i) /\ args.album_policy = "keep-non-album" => ~Album(k.dir)
         /\ ~Mixed(i) \/ args.album_policy = "keep-default" => BestOf(i, k)
         /\ /\ Range(dup_sets[i]) = {PathAp, PathBp}
            /\ Album(FolderB)
            /\ args.album_policy = "keep-non-album"
            => k = PathAp

\* Under keep-album the keeper of a mixed set is in the album folder although
\* a member in another folder has the shorter key, and that member is the
\* duplicate of the report.
C4_Witness ==
  /\ pc = "done"
  /\ args.album_policy = "keep-album"
  /\ args.keep = "shortest"
  /\ \E i \in DOMAIN dup_sets :
       /\ Mixed(i)
       /\ Album(KeeperOf(i).dir)
       /\ \E q \in Range(dup_sets[i]) : ShortKeyLess(q, KeeperOf(i))
       /\ \E j \in DOMAIN report :
            report[j].keeper = KeeperOf(i) /\ ~Album(report[j].duplicate.dir)

\* C5 as claimed: the keeper of a duplicate set is the same in whatever order
\* the members of the set are listed.
C5_KeeperIgnoresOrder ==
  Grouped =>
    \A i \in DOMAIN dup_sets :
      \A ps \in Perms(Range(dup_sets[i])) :
        pick_keeper(ps, args.album_policy, args.keep) = KeeperOf(i)

\* The paths of the "delete" and "delete sidecar" lines of out, in order.
RECURSIVE Listed(_)
Listed(out) ==
  IF out = << >> THEN << >>
  ELSE (IF Head(out).line \in {"delete", "delete sidecar"}
        THEN <<Head(out).path>> ELSE << >>) \o Listed(Tail(out))

\* The previous invocation was the dry run of this one, a live deletion, and
\* no I/O error was raised in either.
AfterDryRun ==
  /\ prev.ran
  /\ prev.args.dry_run
  /\ Live
  /\ prev.ioFailed = {}
  /\ ioFailed = {}

\* C6 as claimed: when a dry run was followed by the live run on the same tree
\* with the same policy, the files the dry run listed (each duplicate, then
\* its sidecars) are the files the live run unlinked, one for one.
C6_DryRunListsWhatIsDeleted ==
  pc = "done" /\ AfterDryRun => Listed(prev.stdout) = removed

\* C7: whenever a file of the tree is removed, --delete-duplicates is set and
\* --dry-run is not; no step of a report-only run or of a dry run changes the
\* files of the tree.
C7_OnlyLiveDeletionRemoves ==
  [][exists' # exists => Live /\ exists' \subseteq exists /\ pc = "delete"]_vars

\* A dry run that listed a duplicate is over, and so is a report-only run of
\* a tree with duplicates, when --dry-run is given too.
C7_Witness ==
  /\ pc = "done"
  /\ dup_sets # << >>
  /\ removed = << >>
  /\ \/ args.delete_duplicates /\ args.dry_run /\ Listed(stdout) # << >>
     \/ ~args.delete_duplicates /\ args.dry_run

\* C8 as claimed: when the previous invocation was a live deletion that
\* completed, this one finds no duplicate set.
C8_RerunFindsNothing ==
  prev.ran /\ ~prev.args.dry_run /\ Grouped => dup_sets = << >>

\* C8 as amended: when the previous invocation was a live deletion that
\* completed and in which no I/O error was raised for any file, this one
\* finds no duplicate set.
C8_RerunFindsNothingUnlessFailed ==
  prev.ran /\ ~prev.args.dry_run /\ prev.ioFailed = {} /\ Grouped => dup_sets = << >>

\* The invocation after a live deletion that unlinked files has grouped the
\* files that are left, of which there are at least two.
C8_Witness ==
  /\ prev.ran
  /\ ~prev.args.dry_run
  /\ prev.ioFailed = {}
  /\ prev.removed # << >>
  /\ Grouped
  /\ Len(files) >= 2
  /\ dup_sets = << >>

\* The size of the scanned file p is the size of no other scanned file.
UniqueSize(p) ==
  \A i, j \in DOMAIN files : files[i].path = p /\ j # i => files[j].size # files[i].size

\* C9: neither quick_hash nor sha256_file is called on a scanned file of
\* unique size, and sha256_file is called only on the members of a group of
\* by_qh of at least two.
C9_NoHashOfUniqueSize ==
  /\ pc # "scan" =>
       \A p \in Scanned : UniqueSize(p) =>
         <<"quick_hash", p>> \notin hashCalls /\ <<"sha256_file", p>> \notin hashCalls
  /\ \A p \in MediaPaths : <<"sha256_file", p>> \in hashCalls =>
       \E i \in DOMAIN by_qh : p \in Range(by_qh[i].v) /\ Len(by_qh[i].v) >= 2

\* The run is over; a file of unique size was not hashed at all, and a file
\* that quick_hash left alone in its group of by_qh was not given to
\* sha256_file.
C9_Witness ==
  /\ pc = "done"
  /\ \E p \in Scanned : UniqueSize(p) /\ \A h \in hashCalls : h[2] # p
  /\ \E i \in DOMAIN by_qh :
       /\ Len(by_qh[i].v) = 1
       /\ <<"quick_hash", by_qh[i].v[1]>> \in hashCalls
       /\ <<"sha256_file", by_qh[i].v[1]>> \notin hashCalls

\* C10 as claimed: an I/O error raised while stat-ing or hashing one file
\* never ends the run.
C10_HashFailureIsNotFatal ==
  ~(pc = "crashed" /\ error \in {"stat", "sha256_file"})

\* C11 as claimed: every sidecar that is unlinked follows, in the order of the
\* unlink calls, the media file of its folder that was unlinked before it, and
\* an unlink that raises an I/O error, for a media file or for a sidecar, does
\* not end the run: the remaining duplicates are still processed.
C11_FailedDeletionDoesNotStop ==
  /\ \A j \in DOMAIN removed :
       removed[j] \in SidecarPaths =>
         \E i \in 1..(j - 1) : removed[i] \in MediaPaths /\ removed[i].dir = removed[j].dir
  /\ ~(pc = "crashed" /\ error = "unlink")

\* The sidecars named after the media file p.
OwnSidecars(p) ==
  {Path(p.dir, p.name \o ExtJson), Path(p.dir, p.name \o SUPPLEMENTAL_SUFFIX)}

\* C12 as claimed: no sidecar named after the keeper of a duplicate set is
\* unlinked, so each one that existed before the run exists after it.
C12_KeeperSidecarsAreKept ==
  \A i \in DOMAIN dup_sets :
    \A sc \in OwnSidecars(KeeperOf(i)) : sc \notin Range(removed)

====
